---- MODULE Spec2Model ----
(***************************************************************************)
(* A model of thirtyfour_query's ElementWaiter (src/src/waiter.rs): the    *)
(* fluent builder created by wait_until, and the polling loop run_poller   *)
(* that the terminal operations condition / conditions / stale / ...       *)
(* drive against an ElementPollerTicker.                                   *)
(*                                                                         *)
(* ElementPoller, ElementPollerTicker and conditions::handle_errors are    *)
(* used by waiter.rs but defined elsewhere; they are modelled from the     *)
(* specification's sections 3, 4.1 and 4.2.                                *)
(***************************************************************************)
EXTENDS Integers, Sequences, FiniteSets, TLC

\* ---------------------------------------------------------------- bounds
MaxAttempts == 2
MaxTimeout == 2
MaxConds == 2
MaxTicks == 4

\* ---------------------------------------------------------------- values
Elements == {"elem_button"}
Messages == {"Timed out waiting for button to become stale", "Some error"}
Errors == {"StaleElementReference", "NoSuchElement"}

\* What one evaluation of a predicate (or of a WebElement accessor) returns:
\* Ok(true), Ok(false) or Err(e).
Results == {"true", "false"} \cup Errors

IsErr(r) == r \in Errors

\* enum ElementPoller, as the specification names its variants.
NoWait == [tag |-> "NoWait", timeout |-> 0, interval |-> 0, max_attempts |-> 0]

FixedCount(i, n) ==
    [tag |-> "FixedCount", timeout |-> 0, interval |-> i, max_attempts |-> n]

TimeoutWithInterval(t, i) ==
    [tag |-> "TimeoutWithInterval", timeout |-> t, interval |-> i, max_attempts |-> 0]

\* The Durations used as poll intervals.
Intervals == {1, 2}

Pollers ==
    {NoWait}
    \cup {FixedCount(i, n) : i \in Intervals, n \in 0..MaxAttempts}
    \cup {TimeoutWithInterval(t, i) : t \in 0..MaxTimeout, i \in Intervals}

\* The strategies the session default is drawn from.
ConfigPollers == {FixedCount(1, MaxAttempts), TimeoutWithInterval(MaxTimeout, 1)}

\* How long one evaluation of a predicate takes.  A sleep is modelled as
\* taking exactly the interval asked for: a sleep that wakes late reads the
\* clock as a sleep followed by a slow evaluation does.
EvalTimes == {0, 1}

\* The session configuration has no "ElementPoller" entry.
NoConfig == [tag |-> "Unset", timeout |-> 0, interval |-> 0, max_attempts |-> 0]

\* WebDriverResult<()> of a terminal operation ("Pending": not returned yet).
Pending == [tag |-> "Pending", arg |-> ""]
OkUnit == [tag |-> "Ok", arg |-> ""]
ErrTimeout(m) == [tag |-> "Timeout", arg |-> m]
ErrOther(e) == [tag |-> "Err", arg |-> e]

\* WebDriverResult<bool> of run_poller.
RpTrue == [tag |-> "Ok", arg |-> "true"]
RpFalse == [tag |-> "Ok", arg |-> "false"]
RpErr(e) == [tag |-> "Err", arg |-> e]

VARIABLES
    config,     \* the session's "ElementPoller" configuration entry, or NoConfig
    waiter,     \* the ElementWaiter: element, poller, message, ignore_errors
    given,      \* the message that was passed to wait_until
    pc,         \* "idle", "built", "eval", "tick", "done"
    conds,      \* the Vec<ElementPredicate> handed to run_poller
    idx,        \* position of the for loop of run_poller in conds
    ticker,     \* the ElementPollerTicker of the running wait
    now,        \* the clock
    result,     \* what the terminal operation returned
    op,         \* the terminal operation that was called
    log,        \* per evaluation round, each evaluation: predicate i returned r
    starts,     \* per evaluation round, the clock when the round started
    ticks,      \* what each call of ticker.tick() returned
    slept,      \* the cumulative time spent sleeping inside tick()
    pcB,        \* a second wait, run on a clone of the waiter: where it stands,
    tickerB,    \*   the ElementPollerTicker its run_poller created,
    roundsB,    \*   how many evaluation rounds it has started,
    ticksB,     \*   what each call of its ticker's tick() returned,
    resultB     \*   and what it returned

clone_vars == <<pcB, tickerB, roundsB, ticksB, resultB>>

vars ==
    <<config, waiter, given, pc, conds, idx, ticker, now, result, op, log, starts, ticks, slept,
      clone_vars>>

run_vars == <<conds, idx, ticker, now, result, op, log, starts, ticks, slept>>

NoWaiter == [element |-> "", poller |-> NoWait, message |-> "", ignore_errors |-> FALSE]
NoTicker == [poller |-> NoWait, cur_tries |-> 0, start |-> 0]

Init ==
    /\ config = NoConfig
    /\ waiter = NoWaiter
    /\ given = ""
    /\ pc = "idle"
    /\ conds = <<>>
    /\ idx = 0
    /\ ticker = NoTicker
    /\ now = 0
    /\ result = Pending
    /\ op = ""
    /\ log = <<>>
    /\ starts = <<>>
    /\ ticks = <<>>
    /\ slept = 0
    /\ pcB = "none"
    /\ tickerB = NoTicker
    /\ roundsB = 0
    /\ ticksB = <<>>
    /\ resultB = Pending

\* ------------------------------------------------------ session / builder

\* driver.config_mut().set("ElementPoller", poller)
SetConfig(p) ==
    /\ pc = "idle"
    /\ config' = p
    /\ UNCHANGED <<waiter, given, pc, run_vars, clone_vars>>

\* ElementWaiter::new
new(element, poller, message) ==
    [element |-> element, poller |-> poller, message |-> message, ignore_errors |-> TRUE]

\* Mutant: the configured entry is not found, the fallback is always taken.
DefaultPoller_fallback(c) == NoWait

\* self.session.config().get("ElementPoller").unwrap_or(ElementPoller::NoWait)
DefaultPoller(c) == IF c = NoConfig THEN NoWait ELSE c

\* impl ElementWaitable for WebElement: wait_until
wait_until(e, m) ==
    /\ pc = "idle"
    /\ waiter' = new(e, DefaultPoller(config), m)
    /\ given' = m
    /\ pc' = "built"
    /\ UNCHANGED <<config, run_vars, clone_vars>>

\* Mutant: with_poller builds a new waiter through ElementWaiter::new.
SetPoller_rebuilds(w, p) == new(w.element, p, w.message)

\* ElementWaiter::with_poller, as a function of the waiter
SetPoller(w, p) == [w EXCEPT !.poller = p]

with_poller(p) ==
    /\ pc = "built"
    /\ waiter' = SetPoller(waiter, p)
    /\ UNCHANGED <<config, given, pc, run_vars, clone_vars>>

\* ElementWaiter::ignore_errors, as a function of the waiter
SetIgnoreErrors(w, b) == [w EXCEPT !.ignore_errors = b]

ignore_errors(b) ==
    /\ pc = "built"
    /\ waiter' = SetIgnoreErrors(waiter, b)
    /\ UNCHANGED <<config, given, pc, run_vars, clone_vars>>

\* Mutant: wait hands its arguments to TimeoutWithInterval in the wrong order.
WaitWith_swapped(w, t, i) == SetPoller(w, TimeoutWithInterval(i, t))

\* ElementWaiter::wait, as a function of the waiter
WaitWith(w, t, i) == SetPoller(w, TimeoutWithInterval(t, i))

wait(t, i) ==
    /\ pc = "built"
    /\ waiter' = WaitWith(waiter, t, i)
    /\ UNCHANGED <<config, given, pc, run_vars, clone_vars>>

\* ------------------------------------------------------------- predicates

\* A custom closure handed to condition / conditions: what the closure returns
\* is what the polling loop sees.  The named conditions capture the waiter's
\* ignore_errors flag when the predicate is built.
CustomPredicate == [kind |-> "custom", ignore |-> FALSE]
StalePredicate(w) == [kind |-> "stale", ignore |-> w.ignore_errors]
DisplayedPredicate(w) == [kind |-> "displayed", ignore |-> w.ignore_errors]

\* conditions::handle_errors: under tolerance an error collapses to Ok(false).
handle_errors(r, ignore) == IF IsErr(r) /\ ignore THEN "false" ELSE r

\* Result::map(|x| !x)
MapNot(r) == IF r = "true" THEN "false" ELSE IF r = "false" THEN "true" ELSE r

\* f(&self.element).await, where a is what the closure body or the WebElement
\* accessor produced on this evaluation.
Evaluate(f, a) ==
    CASE f.kind = "custom" -> a
      [] f.kind = "stale" -> handle_errors(MapNot(a), f.ignore)
      [] f.kind = "displayed" -> handle_errors(a, f.ignore)

\* ----------------------------------------------------------------- ticker

\* ElementPollerTicker::new
ElementPollerTicker_new(p, t) == [poller |-> p, cur_tries |-> 0, start |-> t]

\* Mutant: an exhausted FixedCount ticker starts its count again.
tick_resets(tk, t, early) ==
    LET p == tk.poller
        stop == [ret |-> FALSE, ticker |-> tk, now |-> t, slept |-> 0]
        wake == t + p.interval
    IN  CASE p.tag = "NoWait" -> stop
          [] p.tag = "FixedCount" ->
                IF tk.cur_tries < p.max_attempts
                THEN [ret |-> TRUE,
                      ticker |-> [tk EXCEPT !.cur_tries = @ + 1],
                      now |-> wake,
                      slept |-> p.interval]
                ELSE [stop EXCEPT !.ticker = [tk EXCEPT !.cur_tries = 0]]
          [] p.tag = "TimeoutWithInterval" ->
                IF early /\ t - tk.start > p.timeout
                THEN stop
                ELSE [ret |-> wake - tk.start <= p.timeout,
                      ticker |-> [tk EXCEPT !.cur_tries = @ + 1],
                      now |-> wake,
                      slept |-> p.interval]

\* ElementPollerTicker::tick on ticker tk at clock t.  early says whether a
\* deadline that has already passed is noticed before sleeping (the text
\* allows both readings).  Gives what tick returns, the ticker and the clock
\* afterwards, and the time slept.
tick(tk, t, early) ==
    LET p == tk.poller
        stop == [ret |-> FALSE, ticker |-> tk, now |-> t, slept |-> 0]
        wake == t + p.interval
    IN  CASE p.tag = "NoWait" -> stop
          [] p.tag = "FixedCount" ->
                IF tk.cur_tries < p.max_attempts
                THEN [ret |-> TRUE,
                      ticker |-> [tk EXCEPT !.cur_tries = @ + 1],
                      now |-> wake,
                      slept |-> p.interval]
                ELSE stop
          [] p.tag = "TimeoutWithInterval" ->
                IF early /\ t - tk.start > p.timeout
                THEN stop
                ELSE [ret |-> wake - tk.start <= p.timeout,
                      ticker |-> [tk EXCEPT !.cur_tries = @ + 1],
                      now |-> wake,
                      slept |-> p.interval]

\* ------------------------------------------------------------ polling loop

\* ElementWaiter::timeout
timeout(w) == ErrTimeout(w.message)

\* Mutant: the arms of the match are swapped.
match_run_poller_swapped(w, rp) ==
    IF rp.tag = "Err" THEN ErrOther(rp.arg)
    ELSE IF rp.arg = "true" THEN timeout(w)
    ELSE OkUnit

\* condition / conditions: match self.run_poller(..).await? { true => Ok(()),
\* false => self.timeout() }
match_run_poller(w, rp) ==
    IF rp.tag = "Err" THEN ErrOther(rp.arg)
    ELSE IF rp.arg = "true" THEN OkUnit
    ELSE timeout(w)

\* Mutant: the loop asks the ticker before its first evaluation (a while loop
\* on ticker.tick() in place of loop { .. }).
LoopTop_tick_first(w, list) ==
    IF log = <<>>
    THEN [pc |-> "tick", idx |-> 0, result |-> Pending, again |-> TRUE]
    ELSE IF Len(list) = 0
    THEN [pc |-> "done", idx |-> 0, result |-> match_run_poller(w, RpTrue), again |-> TRUE]
    ELSE [pc |-> "eval", idx |-> 1, result |-> Pending, again |-> TRUE]

\* run_poller from the top of `loop` to its first await: with nothing to
\* evaluate conditions_met stays true and the function returns Ok(true).
\* again: the loop body is entered (once more).
LoopTop(w, list) ==
    IF Len(list) = 0
    THEN [pc |-> "done", idx |-> 0, result |-> match_run_poller(w, RpTrue), again |-> TRUE]
    ELSE [pc |-> "eval", idx |-> 1, result |-> Pending, again |-> TRUE]

\* Mutant: the loop returns Ok(true) at the first predicate that returns true.
AfterEval_first_true(w, list, i, r) ==
    IF IsErr(r)
    THEN [pc |-> "done", idx |-> i, result |-> match_run_poller(w, RpErr(r))]
    ELSE IF r = "false"
    THEN [pc |-> "tick", idx |-> i, result |-> Pending]
    ELSE [pc |-> "done", idx |-> i, result |-> match_run_poller(w, RpTrue)]

\* Mutant: the for loop has no break, a false predicate only clears
\* conditions_met.
AfterEval_no_break(w, list, i, r) ==
    IF IsErr(r)
    THEN [pc |-> "done", idx |-> i, result |-> match_run_poller(w, RpErr(r))]
    ELSE IF i < Len(list)
    THEN [pc |-> "eval", idx |-> i + 1, result |-> Pending]
    ELSE IF r = "false"
    THEN [pc |-> "tick", idx |-> i, result |-> Pending]
    ELSE [pc |-> "done", idx |-> i, result |-> match_run_poller(w, RpTrue)]

\* Mutant: an error from a predicate is taken as "not yet met".
AfterEval_error_as_false(w, list, i, r) ==
    IF IsErr(r) \/ r = "false"
    THEN [pc |-> "tick", idx |-> i, result |-> Pending]
    ELSE IF i < Len(list)
    THEN [pc |-> "eval", idx |-> i + 1, result |-> Pending]
    ELSE [pc |-> "done", idx |-> i, result |-> match_run_poller(w, RpTrue)]

\* run_poller after predicate i of list returned r: `?` returns an error,
\* false breaks out of the for loop towards ticker.tick(), true moves on to
\* the next predicate or, after the last one, returns Ok(true).
AfterEval(w, list, i, r) ==
    IF IsErr(r)
    THEN [pc |-> "done", idx |-> i, result |-> match_run_poller(w, RpErr(r))]
    ELSE IF r = "false"
    THEN [pc |-> "tick", idx |-> i, result |-> Pending]
    ELSE IF i < Len(list)
    THEN [pc |-> "eval", idx |-> i + 1, result |-> Pending]
    ELSE [pc |-> "done", idx |-> i, result |-> match_run_poller(w, RpTrue)]

\* Mutant: the negation of `if !ticker.tick().await` is lost.
AfterTick_inverted(w, list, ret) ==
    IF ~ret
    THEN LoopTop(w, list)
    ELSE [pc |-> "done", idx |-> idx, result |-> match_run_poller(w, RpFalse), again |-> FALSE]

\* Mutant: what ticker.tick() returned is not looked at.
AfterTick_ignored(w, list, ret) == LoopTop(w, list)

\* run_poller after ticker.tick() returned ret.
AfterTick(w, list, ret) ==
    IF ret
    THEN LoopTop(w, list)
    ELSE [pc |-> "done", idx |-> idx, result |-> match_run_poller(w, RpFalse), again |-> FALSE]

\* Mutant: the ticker is kept with the waiter, so that a wait finds the ticker
\* another wait on the same waiter or on a clone of it has been using.
run_poller_ticker_kept(w, t) ==
    IF ticker # NoTicker THEN ticker
    ELSE IF tickerB # NoTicker THEN tickerB
    ELSE ElementPollerTicker_new(w.poller, t)

\* let mut ticker = ElementPollerTicker::new(self.poller.clone()), at clock t
run_poller_ticker(w, t) == ElementPollerTicker_new(w.poller, t)

\* A terminal operation: run_poller creates its ticker and enters the loop.
run_poller(name, list) ==
    /\ pc = "built"
    /\ op' = name
    /\ conds' = list
    /\ ticker' = run_poller_ticker(waiter, now)
    /\ LET c == LoopTop(waiter, list)
       IN  /\ pc' = c.pc
           /\ idx' = c.idx
           /\ result' = c.result
    /\ log' = <<<<>>>>
    /\ starts' = <<now>>
    /\ UNCHANGED <<config, waiter, given, now, ticks, slept, clone_vars>>

condition(f) == run_poller("condition", <<f>>)

conditions(list) == run_poller("conditions", list)

stale == run_poller("stale", <<StalePredicate(waiter)>>)

displayed == run_poller("displayed", <<DisplayedPredicate(waiter)>>)

\* The awaited predicate conds[idx] returns after d time units; a is what its
\* body produced.
EvalReturns(a, d) ==
    /\ pc = "eval"
    /\ LET r == Evaluate(conds[idx], a)
           c == AfterEval(waiter, conds, idx, r)
       IN  /\ log' = [log EXCEPT ![Len(log)] = Append(@, [i |-> idx, r |-> r])]
           /\ pc' = c.pc
           /\ idx' = c.idx
           /\ result' = c.result
    /\ now' = now + d
    /\ UNCHANGED <<config, waiter, given, conds, op, ticker, starts, ticks, slept, clone_vars>>

\* ticker.tick().await
Tick(early) ==
    /\ pc = "tick"
    /\ LET o == tick(ticker, now, early)
           c == AfterTick(waiter, conds, o.ret)
       IN  /\ ticker' = o.ticker
           /\ now' = o.now
           /\ slept' = slept + o.slept
           /\ ticks' = Append(ticks, o.ret)
           /\ pc' = c.pc
           /\ idx' = c.idx
           /\ result' = c.result
           /\ log' = IF c.again THEN Append(log, <<>>) ELSE log
           /\ starts' = IF c.again THEN Append(starts, o.now) ELSE starts
    /\ UNCHANGED <<config, waiter, given, conds, op, clone_vars>>

\* The terminal operation has returned: it consumed the waiter, and the
\* ticker of run_poller is dropped.  The element can be waited on again; the
\* clock is read from here on (only differences of clock readings matter).
Returned ==
    /\ pc = "done"
    /\ pc' = "idle"
    /\ waiter' = NoWaiter
    /\ given' = ""
    /\ conds' = <<>>
    /\ idx' = 0
    /\ ticker' = NoTicker
    /\ now' = 0
    /\ result' = Pending
    /\ op' = ""
    /\ log' = <<>>
    /\ starts' = <<>>
    /\ ticks' = <<>>
    /\ slept' = 0
    /\ UNCHANGED <<config, clone_vars>>

PredicateLists == UNION {[1..n -> {CustomPredicate}] : n \in 0..MaxConds}

Next ==
    \/ \E p \in ConfigPollers : SetConfig(p)
    \/ \E e \in Elements, m \in Messages : wait_until(e, m)
    \/ \E p \in Pollers : with_poller(p)
    \/ \E b \in BOOLEAN : ignore_errors(b)
    \/ \E t \in 0..MaxTimeout, i \in Intervals : wait(t, i)
    \/ condition(CustomPredicate)
    \/ \E list \in PredicateLists : conditions(list)
    \/ stale
    \/ displayed
    \/ \E a \in Results, d \in EvalTimes : EvalReturns(a, d)
    \/ \E early \in BOOLEAN : Tick(early)
    \/ Returned

Spec == Init /\ [][Next]_vars

\* ------------------------------------------------------- reading the log

Done == pc = "done"
Started == op # ""
Rounds == Len(log)

\* Every evaluation made so far, as <<round, position in the round>>.
Evals == {<<k, n>> \in (1..Len(log)) \X (1..MaxConds + 1) : n <= Len(log[k])}

SomeTrue == \E e \in Evals : log[e[1]][e[2]].r = "true"
SomeErr == \E e \in Evals : IsErr(log[e[1]][e[2]].r)

\* On round k every predicate of the list was evaluated and returned true.
AllTrueOn(k) ==
    /\ Len(log[k]) = Len(conds)
    /\ \A n \in 1..Len(log[k]) : log[k][n].r = "true"

\* The attempts made so far on the first predicate: the rounds in which it has
\* returned.
NAttempts == IF Rounds > 0 /\ Len(log[Rounds]) = 0 THEN Rounds - 1 ELSE Rounds

\* How often predicate i has been evaluated.
EvalCount(i) == Cardinality({e \in Evals : log[e[1]][e[2]].i = i})

\* ----------------------------------------------------------------- claims

\* C1: condition(predicate) returns Ok(()) exactly when some evaluation of the
\* predicate returned true, and when the wait ended with no evaluation having
\* returned true or an error it returns Timeout carrying the very message that
\* was given to wait_until, whatever builder calls were made in between.
C1_ConditionResult ==
    op \in {"condition", "stale", "displayed"} =>
        /\ (result = OkUnit) <=> SomeTrue
        /\ (Done /\ ~SomeTrue /\ ~SomeErr) => result = ErrTimeout(given)

\* A condition() that timed out after a retry, on a waiter whose strategy and
\* tolerance flag were both changed after wait_until.
C1_Witness ==
    /\ Done
    /\ op = "condition"
    /\ result = ErrTimeout(given)
    /\ Rounds >= 2
    /\ waiter.poller # DefaultPoller(config)
    /\ ~waiter.ignore_errors

\* C2: conditions(list) returns Ok(()) only if on one round every predicate of
\* the list returned true; a wait in which no round had all predicates true
\* (and no predicate returned an error) ends in Timeout, whichever predicates
\* returned true on separate rounds.
C2_AllOnSameTick ==
    op = "conditions" =>
        /\ result = OkUnit => \E k \in 1..Rounds : AllTrueOn(k)
        /\ (Done /\ ~SomeErr /\ ~(\E k \in 1..Rounds : AllTrueOn(k)))
                => result = ErrTimeout(given)

\* Two predicates: the first returned true on round 1 where the second
\* returned false, and the wait timed out without a round where both held.
C2_Witness ==
    /\ Done
    /\ op = "conditions"
    /\ Len(conds) = 2
    /\ Rounds >= 2
    /\ Len(log[1]) = 2
    /\ log[1][1].r = "true"
    /\ log[1][2].r = "false"
    /\ result = ErrTimeout(given)

\* C3: within one round conditions(list) evaluates the predicates in listed
\* order and stops at the first that returns false: the n-th evaluation of a
\* round is of predicate n, and every evaluation before the last of a round
\* returned true.
C3_ShortCircuit ==
    Started =>
        \A k \in 1..Rounds :
            \A n \in 1..Len(log[k]) :
                /\ log[k][n].i = n
                /\ n < Len(log[k]) => log[k][n].r = "true"

\* A round of a two-predicate list that stopped at the first predicate, after
\* a round that reached the second.
C3_Witness ==
    /\ op = "conditions"
    /\ Len(conds) = 2
    /\ Rounds >= 2
    /\ Len(log[1]) = 2
    /\ pc = "tick"
    /\ Len(log[2]) = 1
    /\ log[2][1].r = "false"

\* The predicate has so far behaved as one that returns an error on attempts
\* 1 and 2 and true on attempt 3.
ErrErrTrueSoFar ==
    \A k \in 1..NAttempts :
        /\ k <= 3
        /\ k <= 2 => IsErr(log[k][1].r)
        /\ k = 3 => log[k][1].r = "true"

\* C4: with error tolerance on and a strategy that allows three evaluations, a
\* wait by condition() on a predicate that returns an error on attempts 1 and
\* 2 and true on attempt 3 ends with Ok(()) after exactly 3 evaluations.
C4_ErrorsTolerated ==
    ( /\ Done
      /\ op = "condition"
      /\ waiter.ignore_errors
      /\ waiter.poller.tag = "FixedCount"
      /\ waiter.poller.max_attempts >= 2
      /\ ErrErrTrueSoFar )
    => (result = OkUnit /\ NAttempts = 3)

\* C5: with error tolerance off, a first evaluation that returns an error ends
\* the wait at once with that same error: one evaluation, no tick, no sleep.
C5_IntolerantFirstError ==
    ( /\ Started
      /\ ~waiter.ignore_errors
      /\ Rounds >= 1
      /\ Len(log[1]) >= 1
      /\ IsErr(log[1][1].r) )
    => /\ Done
       /\ result = ErrOther(log[1][1].r)
       /\ Cardinality(Evals) = 1
       /\ ticks = <<>>
       /\ slept = 0

\* stale() on an intolerant waiter whose strategy had retries left, ended by
\* the error of its first evaluation.
C5_Witness ==
    /\ Done
    /\ op = "stale"
    /\ ~waiter.ignore_errors
    /\ waiter.poller.tag = "FixedCount"
    /\ waiter.poller.max_attempts >= 1
    /\ IsErr(log[1][1].r)
    /\ result = ErrOther(log[1][1].r)

\* C6: conditions() with an empty list fails fast: it ends in an error, with
\* no evaluation and no tick, and never in Ok(()).
C6_EmptyListFails ==
    (Done /\ op = "conditions" /\ Len(conds) = 0)
    => /\ result.tag \in {"Err", "Timeout"}
       /\ Evals = {}
       /\ ticks = <<>>

\* C7: whatever the strategy, a wait on a non-empty list evaluates before it
\* first ticks or sleeps, and never ends without an evaluation.
C7_EvaluateBeforeTick ==
    (Started /\ Len(conds) >= 1)
    => /\ ticks # <<>> => Len(log[1]) >= 1
       /\ slept > 0 => Len(log[1]) >= 1
       /\ Done => Len(log[1]) >= 1

\* A wait with a zero timeout that evaluated once and then timed out.
C7_Witness ==
    /\ Done
    /\ waiter.poller.tag = "TimeoutWithInterval"
    /\ waiter.poller.timeout = 0
    /\ Len(log[1]) >= 1
    /\ result = ErrTimeout(given)

\* C8: under NoWait there is one evaluation round and no delay: tick() returns
\* false, each predicate is evaluated at most once, and a round that failed
\* ends in Timeout after that one tick.
C8_NoWaitSingleRound ==
    (Started /\ ticker.poller = NoWait)
    => /\ Rounds = 1
       /\ \A i \in 1..Len(conds) : EvalCount(i) <= 1
       /\ slept = 0
       /\ Len(ticks) <= 1
       /\ \A n \in 1..Len(ticks) : ~ticks[n]
       /\ (Done /\ Len(log[1]) >= 1 /\ log[1][Len(log[1])].r = "false")
              => (result = ErrTimeout(given) /\ ticks = <<FALSE>>)

\* Under NoWait, a two-predicate round whose second predicate returned false.
C8_Witness ==
    /\ Done
    /\ ticker.poller = NoWait
    /\ Len(conds) = 2
    /\ Len(log[1]) = 2
    /\ log[1][2].r = "false"
    /\ result = ErrTimeout(given)

\* C9: under FixedCount{interval = I, max_attempts = N} there are at most
\* N + 1 evaluation rounds; a wait that times out made exactly N + 1 rounds
\* and slept at least N * I; with N = 0 the first predicate is evaluated
\* exactly once.
C9_FixedCountRounds ==
    (Started /\ ticker.poller.tag = "FixedCount")
    => LET N == ticker.poller.max_attempts
           I == ticker.poller.interval
       IN  /\ Rounds <= N + 1
           /\ (Done /\ result.tag = "Timeout")
                  => (Rounds = N + 1 /\ slept >= N * I)
           /\ (Done /\ N = 0 /\ Len(conds) >= 1)
                  => (Rounds = 1 /\ EvalCount(1) = 1)

\* A FixedCount wait with two retries and an interval of 2 that timed out.
C9_Witness ==
    /\ Done
    /\ ticker.poller.tag = "FixedCount"
    /\ ticker.poller.max_attempts = 2
    /\ ticker.poller.interval = 2
    /\ Rounds = 3
    /\ slept = 4
    /\ result = ErrTimeout(given)

\* C10: under TimeoutWithInterval{timeout = T, interval = I} every evaluation
\* round starts no later than T after the ticker was created, and a wait on a
\* non-empty list never ends without an evaluation, also when T < I.
C10_RoundsWithinTimeout ==
    (Started /\ ticker.poller.tag = "TimeoutWithInterval")
    => /\ \A k \in 1..Len(starts) : starts[k] - ticker.start <= ticker.poller.timeout
       /\ (Done /\ Len(conds) >= 1) => Len(log[1]) >= 1

\* A wait whose timeout is shorter than its interval: one evaluation, one
\* sleep past the deadline, Timeout.
C10_Witness ==
    /\ Done
    /\ ticker.poller.tag = "TimeoutWithInterval"
    /\ ticker.poller.timeout < ticker.poller.interval
    /\ Rounds = 1
    /\ Len(log[1]) = 1
    /\ ticks = <<FALSE>>
    /\ slept = ticker.poller.interval
    /\ result = ErrTimeout(given)

\* ------------------------------------------------- the ticker on its own

\* A ticker of any strategy, ticked again and again by its owner, also after
\* it has returned false; d is the time that passes before each call.
TickerInit ==
    /\ config = NoConfig
    /\ waiter = NoWaiter
    /\ given = ""
    /\ pc = "ticker"
    /\ conds = <<>>
    /\ idx = 0
    /\ ticker \in {ElementPollerTicker_new(p, 0) : p \in Pollers}
    /\ now = 0
    /\ result = Pending
    /\ op = ""
    /\ log = <<>>
    /\ starts = <<>>
    /\ ticks = <<>>
    /\ slept = 0
    /\ pcB = "none"
    /\ tickerB = NoTicker
    /\ roundsB = 0
    /\ ticksB = <<>>
    /\ resultB = Pending

TickAlone(d, early) ==
    /\ pc = "ticker"
    /\ Len(ticks) < MaxTicks
    /\ LET o == tick(ticker, now + d, early)
       IN  /\ ticker' = o.ticker
           /\ now' = o.now
           /\ slept' = slept + o.slept
           /\ ticks' = Append(ticks, o.ret)
    /\ UNCHANGED <<config, waiter, given, pc, conds, idx, result, op, log, starts, clone_vars>>

TickerNext == \E d \in EvalTimes, early \in BOOLEAN : TickAlone(d, early)

TickerSpec == TickerInit /\ [][TickerNext]_vars

\* C11: tick() is monotonic on one ticker: after a call that returned false
\* every later call returns false.
C11_TickMonotonic ==
    \A m \in 1..Len(ticks) :
        \A n \in m..Len(ticks) :
            ~ticks[m] => ~ticks[n]

\* A FixedCount ticker that allowed its retries, then refused twice.
C11_Witness ==
    /\ pc = "ticker"
    /\ ticker.poller.tag = "FixedCount"
    /\ ticker.poller.max_attempts >= 1
    /\ Len(ticks) >= 3
    /\ ticks[1]
    /\ ~ticks[Len(ticks) - 1]
    /\ ~ticks[Len(ticks)]

\* C12: a step that changes the waiter's strategy (with_poller, wait) leaves
\* its element, message and ignore_errors flag as they were, and leaves the
\* session's configured default as it was.
C12_OnlyThePollerChanges ==
    [][(pc = "built" /\ pc' = "built" /\ waiter'.poller # waiter.poller)
          => /\ waiter'.element = waiter.element
             /\ waiter'.message = waiter.message
             /\ waiter'.ignore_errors = waiter.ignore_errors
             /\ config' = config]_vars

\* An intolerant waiter whose strategy differs from the configured default.
C12_Witness ==
    /\ pc = "built"
    /\ config # NoConfig
    /\ waiter.poller # config
    /\ waiter.poller # NoWait
    /\ ~waiter.ignore_errors
    /\ waiter.message = given

\* C13: wait_until gives the waiter the strategy configured on the session at
\* that moment, NoWait when none is configured, and a terminal operation runs
\* its ticker on the strategy the waiter then holds.
C13_DefaultInherited ==
    [][/\ (pc = "idle" /\ pc' = "built")
              => waiter'.poller = (IF config = NoConfig THEN NoWait ELSE config)
       /\ (pc = "built" /\ pc' \notin {"built", "idle"})
              => ticker'.poller = waiter.poller]_vars

\* A wait that retried on the strategy configured as the session's default.
C13_Witness ==
    /\ Started
    /\ config # NoConfig
    /\ ticker.poller = config
    /\ Rounds >= 2

\* C14: wait(timeout, interval) leaves the waiter exactly as
\* with_poller(TimeoutWithInterval(timeout, interval)) does, so that every
\* later step is the same; the last of several with_poller / wait calls
\* decides the strategy, and the terminal operation runs on it.
C14_WaitIsWithPoller ==
    /\ pc = "built" =>
          /\ \A t \in 0..MaxTimeout, i \in Intervals :
                WaitWith(waiter, t, i) = SetPoller(waiter, TimeoutWithInterval(t, i))
          /\ \A p \in Pollers, q \in Pollers :
                SetPoller(SetPoller(waiter, q), p) = SetPoller(waiter, p)
    /\ Started => ticker.poller = waiter.poller

\* A wait that retried on a TimeoutWithInterval strategy while the session's
\* default was a FixedCount one.
C14_Witness ==
    /\ Started
    /\ config.tag = "FixedCount"
    /\ ticker.poller.tag = "TimeoutWithInterval"
    /\ ticker.poller.timeout # ticker.poller.interval
    /\ Rounds >= 2

\* ------------------------------------------- two waits on cloned waiters

\* ElementWaiter is Clone.  Two copies of one built waiter each run
\* condition() on a closure, interleaved at their awaits: the first wait in
\* the variables above, the second in clone_vars.  The clock is shared; a
\* sleep advances it in one step.
CloneInit ==
    /\ config = NoConfig
    /\ waiter \in {new(e, p, "Some error") : e \in Elements, p \in Pollers}
    /\ given = waiter.message
    /\ pc = "built"
    /\ conds = <<>>
    /\ idx = 0
    /\ ticker = NoTicker
    /\ now = 0
    /\ result = Pending
    /\ op = ""
    /\ log = <<>>
    /\ starts = <<>>
    /\ ticks = <<>>
    /\ slept = 0
    /\ pcB = "built"
    /\ tickerB = NoTicker
    /\ roundsB = 0
    /\ ticksB = <<>>
    /\ resultB = Pending

\* condition(f) on the clone: run_poller up to its first await.
conditionB ==
    /\ pcB = "built"
    /\ tickerB' = run_poller_ticker(waiter, now)
    /\ LET c == LoopTop(waiter, <<CustomPredicate>>)
       IN  /\ pcB' = c.pc
           /\ resultB' = c.result
    /\ roundsB' = 1
    /\ UNCHANGED <<config, waiter, given, pc, run_vars, ticksB>>

\* The clone's awaited predicate returns.
EvalReturnsB(a, d) ==
    /\ pcB = "eval"
    /\ LET c == AfterEval(waiter, <<CustomPredicate>>, 1, Evaluate(CustomPredicate, a))
       IN  /\ pcB' = c.pc
           /\ resultB' = c.result
    /\ now' = now + d
    /\ UNCHANGED <<config, waiter, given, pc, conds, idx, ticker, result, op, log, starts,
                   ticks, slept, tickerB, roundsB, ticksB>>

\* The clone's ticker.tick().await
TickB(early) ==
    /\ pcB = "tick"
    /\ LET o == tick(tickerB, now, early)
           c == AfterTick(waiter, <<CustomPredicate>>, o.ret)
       IN  /\ tickerB' = o.ticker
           /\ now' = o.now
           /\ ticksB' = Append(ticksB, o.ret)
           /\ pcB' = c.pc
           /\ resultB' = c.result
           /\ roundsB' = IF c.again THEN roundsB + 1 ELSE roundsB
    /\ UNCHANGED <<config, waiter, given, pc, conds, idx, ticker, result, op, log, starts,
                   ticks, slept>>

CloneNext ==
    \/ condition(CustomPredicate)
    \/ \E a \in Results, d \in EvalTimes : EvalReturns(a, d)
    \/ \E early \in BOOLEAN : Tick(early)
    \/ conditionB
    \/ \E a \in Results, d \in EvalTimes : EvalReturnsB(a, d)
    \/ \E early \in BOOLEAN : TickB(early)

CloneSpec == CloneInit /\ [][CloneNext]_vars

\* How many calls of tick() in ts returned true.
TrueCount(ts) == Cardinality({n \in 1..Len(ts) : ts[n]})

\* A wait with ticker tk, tick results ts, n rounds started and result res
\* has had its whole schedule to itself: the ticker is on the waiter's
\* strategy, has counted this wait's ticks only, and a Timeout came after
\* max_attempts retries or after this wait's own deadline.
OwnSchedule(tk, ts, n, res) ==
    /\ tk.poller = waiter.poller
    /\ n = 1 + TrueCount(ts)
    /\ tk.poller.tag = "FixedCount" =>
          /\ tk.cur_tries = TrueCount(ts)
          /\ res.tag = "Timeout" => n = tk.poller.max_attempts + 1
    /\ tk.poller.tag = "TimeoutWithInterval" =>
          /\ tk.cur_tries <= Len(ts)
          /\ res.tag = "Timeout" => now - tk.start > tk.poller.timeout

\* C15: each wait creates its own ticker from the waiter's strategy; with two
\* waits interleaved, the ticks of one take nothing from the schedule of the
\* other.
C15_OwnTicker ==
    /\ Started => OwnSchedule(ticker, ticks, Rounds, result)
    /\ pcB \in {"eval", "tick", "done"} => OwnSchedule(tickerB, ticksB, roundsB, resultB)

\* Under FixedCount with two retries the second wait has run to its Timeout
\* through all three rounds while the first, two ticks into its own schedule,
\* is still evaluating.
C15_Witness ==
    /\ waiter.poller.tag = "FixedCount"
    /\ waiter.poller.max_attempts = 2
    /\ pc = "eval"
    /\ Rounds = 3
    /\ pcB = "done"
    /\ roundsB = 3
    /\ resultB = ErrTimeout(given)


\* ------------------------------------------------------------ termination

\* An awaited predicate returns and an awaited tick() returns: the predicates
\* of the claim each return, and the sleep inside tick() ends because the
\* clock advances.
EvalStep == \E a \in Results, d \in EvalTimes : EvalReturns(a, d)
TickStep == \E early \in BOOLEAN : Tick(early)

\* A waiter as the builder can leave it, under any strategy and either
\* setting of the flag, about to be consumed by a terminal operation.
WaitInit ==
    /\ config = NoConfig
    /\ waiter \in {SetIgnoreErrors(new(e, p, "Some error"), b) :
                      e \in Elements, p \in Pollers, b \in BOOLEAN}
    /\ given = waiter.message
    /\ pc = "built"
    /\ conds = <<>>
    /\ idx = 0
    /\ ticker = NoTicker
    /\ now = 0
    /\ result = Pending
    /\ op = ""
    /\ log = <<>>
    /\ starts = <<>>
    /\ ticks = <<>>
    /\ slept = 0
    /\ pcB = "none"
    /\ tickerB = NoTicker
    /\ roundsB = 0
    /\ ticksB = <<>>
    /\ resultB = Pending

WaitNext ==
    \/ condition(CustomPredicate)
    \/ \E list \in PredicateLists : conditions(list)
    \/ stale
    \/ displayed
    \/ EvalStep
    \/ TickStep

WaitSpec == WaitInit /\ [][WaitNext]_vars /\ WF_vars(EvalStep) /\ WF_vars(TickStep)

\* The wait is inside run_poller, at one of its awaits.
Running == pc \in {"eval", "tick"}

\* The last evaluation made so far.
LastEval == log[Rounds][Len(log[Rounds])]

\* The three ways a wait ends, each with its cause.
EndsOk == result = OkUnit /\ AllTrueOn(Rounds) /\ ~SomeErr
EndsTimeout ==
    /\ result = ErrTimeout(given)
    /\ ticks # <<>> /\ ~ticks[Len(ticks)]
    /\ ~AllTrueOn(Rounds) /\ ~SomeErr
EndsErr ==
    /\ log[Rounds] # <<>>
    /\ IsErr(LastEval.r)
    /\ result = ErrOther(LastEval.r)

\* C16: under every strategy and for every list of predicates whose
\* evaluations return, a wait that has started ends, and it ends in exactly one
\* of three ways: Ok(()) with every predicate true on the last round, Timeout
\* after tick() returned false, or the error a predicate returned; until it
\* ends it has no outcome.
C16_Terminates ==
    /\ [](Done => \/ EndsOk /\ ~EndsTimeout /\ ~EndsErr
                  \/ EndsTimeout /\ ~EndsOk /\ ~EndsErr
                  \/ EndsErr /\ ~EndsOk /\ ~EndsTimeout)
    /\ [](Running => result = Pending)
    /\ (Running ~> Done)

\* A wait with a FixedCount strategy used every attempt and ended in Timeout.
C16_Witness ==
    /\ Done
    /\ EndsTimeout
    /\ waiter.poller.tag = "FixedCount"
    /\ Rounds = waiter.poller.max_attempts + 1
    /\ Rounds >= 2


\* -------------------------------------------------------- error propagation

\* The evaluations that returned an error to the loop.
ErrEvals == {e \in Evals : IsErr(log[e[1]][e[2]].r)}

EndsFalse(k) == log[k] # <<>> /\ log[k][Len(log[k])].r = "false"

\* C18: rounds and ticks alternate.  The n-th call of tick() follows round n,
\* which ended with a predicate returning false; only the last call can have
\* returned false; a round in which every predicate returned true is the last
\* one and ends the wait with Ok(()) without another tick() and without
\* another sleep; and the rounds started are always one more than the calls of
\* tick() that returned true.
C18_RoundsAndTicksAlternate ==
    Started =>
        /\ Rounds = 1 + TrueCount(ticks)
        /\ Len(ticks) \in {Rounds - 1, Rounds}
        /\ \A n \in 1..(Len(ticks) - 1) : ticks[n]
        /\ \A n \in 1..Len(ticks) : EndsFalse(n)
        /\ pc = "tick" => Len(ticks) = Rounds - 1 /\ EndsFalse(Rounds)
        /\ \A k \in 1..Rounds :
              AllTrueOn(k) =>
                  /\ k = Rounds
                  /\ Done
                  /\ result = OkUnit
                  /\ Len(ticks) = Rounds - 1
                  /\ slept = Len(ticks) * ticker.poller.interval

\* Two rounds ended with false, tick() returned true twice, and on the third
\* round both predicates returned true.
C18_Witness ==
    /\ Done
    /\ result = OkUnit
    /\ Len(conds) = 2
    /\ Rounds = 3
    /\ ticks = <<TRUE, TRUE>>
    /\ AllTrueOn(3)
    /\ slept > 0

====
